---- MODULE Spec2Model ----
(***************************************************************************)
(* Model of the chunking engine of src/utils/chunker.py.                   *)
(*                                                                         *)
(* A text is a sequence of one-character strings.  The strategies that are *)
(* loops over a finite list (sentences, words, paragraphs) are operators   *)
(* computed as the code computes them; the sliding-window loop of          *)
(* chunk_text_by_size, which the code does not bound, is a state machine   *)
(* with one step per iteration of its while loop.                          *)
(***************************************************************************)
EXTENDS Integers, Sequences, FiniteSets, TLC

\* ---------------------------------------------------------------- bounds
MaxLen == 4          \* longest text over the whole alphabet
MaxSize == 5         \* largest chunk size / max_chunk_size tried
MaxOverlap == 2      \* largest overlap tried
MaxMinSize == 2      \* largest min_chunk_size tried
ExtraIter == 1       \* windows recorded beyond len(text)

\* overlap that smart_chunking passes to chunk_text_by_size
DefaultOverlap == 200

\* default min_chunk_size of smart_chunking
DefaultMinChunkSize == 100

\* default chunk_size / max_chunk_size of every function
DefaultChunkSize == 1000

\* a max_chunk_size well below the length of LongWord
LongWordSize == 10

\* length of each paragraph of the long text: three of them, and the two
\* blank lines between, are longer than DefaultOverlap
LongParagraph == 67

NL == "\n"
Alphabet == {"a", " ", ".", NL}

\* ------------------------------------------------------- string helpers
Min(S) == CHOOSE m \in S : \A x \in S : m <= x
Max(S) == CHOOSE m \in S : \A x \in S : m >= x

\* characters str.strip(), str.split() and the regex class \s remove
IsSpace(c) == c \in {" ", NL, "\t", "\r"}

\* characters of the regex class [.!?]
IsDelim(c) == c \in {".", "!", "?"}

\* str.strip()
Strip(s) ==
    LET keep == {i \in 1..Len(s) : ~IsSpace(s[i])}
    IN  IF keep = {} THEN <<>> ELSE SubSeq(s, Min(keep), Max(keep))

\* sep.join(parts)
RECURSIVE Join(_, _)
Join(parts, sep) ==
    IF parts = <<>> THEN <<>>
    ELSE IF Len(parts) = 1 THEN parts[1]
    ELSE parts[1] \o sep \o Join(Tail(parts), sep)

\* the elements of a finite set of integers, in increasing order
SortedSeq(S) ==
    [k \in 1..Cardinality(S) |-> CHOOSE x \in S : Cardinality({y \in S : y < x}) = k - 1]

\* the last index of the run of word characters, of delimiters and of
\* whitespace that starts at i
WordEnd(s, i) == Max({j \in i..Len(s) : \A k \in i..j : ~IsSpace(s[k])})
DelimEnd(s, i) == Max({j \in i..Len(s) : \A k \in i..j : IsDelim(s[k])})
SpaceEnd(s, i) == Max({j \in i..Len(s) : \A k \in i..j : IsSpace(s[k])})

\* re.split: what lies before, between and after the separators, given as
\* the list of their <<first, last>> positions
Fragments(s, seps) ==
    [k \in 1..(Len(seps) + 1) |->
        SubSeq(s, IF k = 1 THEN 1 ELSE seps[k - 1][2] + 1,
                  IF k = Len(seps) + 1 THEN Len(s) ELSE seps[k][1] - 1)]

\* StripNonEmpty without its filter: [f.strip() for f in frags]
StripKeepEmpty(frags) == [k \in 1..Len(frags) |-> Strip(frags[k])]

\* [f.strip() for f in frags if f.strip()]
StripNonEmpty(frags) ==
    SelectSeq([k \in 1..Len(frags) |-> Strip(frags[k])], LAMBDA f : f # <<>>)

\* str.split(): the maximal runs of non-whitespace characters, in order
split(s) ==
    LET firsts == SortedSeq({i \in 1..Len(s) :
                       ~IsSpace(s[i]) /\ (i = 1 \/ IsSpace(s[i - 1]))})
    IN  [k \in 1..Len(firsts) |-> SubSeq(s, firsts[k], WordEnd(s, firsts[k]))]

\* re.split(r'[.!?]+', s): a separator is a maximal run of delimiters; the
\* fragments include the empty ones at the ends
re_split_sentences(s) ==
    LET firsts == SortedSeq({i \in 1..Len(s) :
                       IsDelim(s[i]) /\ (i = 1 \/ ~IsDelim(s[i - 1]))})
    IN  Fragments(s, [k \in 1..Len(firsts) |-> <<firsts[k], DelimEnd(s, firsts[k])>>])

\* re.split(r'\n\s*\n', s): a separator starts at the first newline of a run
\* of whitespace and ends at the last newline of that run (\s* is greedy and
\* gives back up to a newline); a run with one newline holds no separator
re_split_paragraphs(s) ==
    LET LastNL(i) == {j \in (i + 1)..SpaceEnd(s, i) : s[j] = NL}
        firsts == SortedSeq({i \in 1..Len(s) :
                       /\ s[i] = NL
                       /\ LastNL(i) # {}
                       /\ ~\E h \in 1..(i - 1) :
                              s[h] = NL /\ \A k \in h..i : IsSpace(s[k])})
    IN  Fragments(s, [k \in 1..Len(firsts) |-> <<firsts[k], Max(LastNL(firsts[k]))>>])

\* ------------------------------------------------------------ strategies

\* WordsStep without its overflow test: the word always joins the open chunk
WordsStepNoFlush(st, word, max_chunk_size) ==
    [chunks        |-> st.chunks,
     current_chunk |-> Append(st.current_chunk, word),
     current_size  |-> st.current_size + Len(word) + 1]

\* chunk_by_words: one iteration of the loop over the words
WordsStep(st, word, max_chunk_size) ==
    LET word_size == Len(word) + 1
    IN  IF st.current_size + word_size > max_chunk_size
        THEN IF st.current_chunk # <<>>
             THEN [chunks        |-> Append(st.chunks, Join(st.current_chunk, <<" ">>)),
                   current_chunk |-> <<word>>,
                   current_size  |-> Len(word)]
             ELSE [chunks        |-> Append(st.chunks, word),
                   current_chunk |-> st.current_chunk,
                   current_size  |-> st.current_size]
        ELSE [chunks        |-> st.chunks,
              current_chunk |-> Append(st.current_chunk, word),
              current_size  |-> st.current_size + word_size]

\* chunk_by_words: the loop's locals after its first i iterations
RECURSIVE WordsLoop(_, _, _)
WordsLoop(words, i, max_chunk_size) ==
    IF i = 0
    THEN [chunks |-> <<>>, current_chunk |-> <<>>, current_size |-> 0]
    ELSE WordsStep(WordsLoop(words, i - 1, max_chunk_size), words[i], max_chunk_size)

\* chunk_by_words without the flush of the last accumulator (lines 92-93)
chunk_by_words_unflushed(t, max_chunk_size) ==
    IF t = <<>> THEN <<>>
    ELSE LET words == split(t)
         IN  WordsLoop(words, Len(words), max_chunk_size).chunks

chunk_by_words(t, max_chunk_size) ==
    IF t = <<>> THEN <<>>
    ELSE LET words == split(t)
             st    == WordsLoop(words, Len(words), max_chunk_size)
         IN  IF st.current_chunk # <<>>
             THEN Append(st.chunks, Join(st.current_chunk, <<" ">>))
             ELSE st.chunks

\* chunk_by_sentences: the list the loop runs over
Sentences(t) == StripNonEmpty(re_split_sentences(t))

\* chunk_by_sentences: one iteration of the loop over the sentences
SentencesStep(st, sentence, max_chunk_size) ==
    IF Len(st.current_chunk) + Len(sentence) + 1 > max_chunk_size
    THEN IF st.current_chunk # <<>>
         THEN [chunks        |-> Append(st.chunks, Strip(st.current_chunk)),
               current_chunk |-> sentence]
         ELSE IF Len(sentence) > max_chunk_size
              THEN [chunks        |-> st.chunks \o chunk_by_words(sentence, max_chunk_size),
                    current_chunk |-> st.current_chunk]
              ELSE [chunks        |-> Append(st.chunks, sentence),
                    current_chunk |-> st.current_chunk]
    ELSE IF st.current_chunk # <<>>
         THEN [chunks        |-> st.chunks,
               current_chunk |-> st.current_chunk \o <<".", " ">> \o sentence]
         ELSE [chunks        |-> st.chunks,
               current_chunk |-> sentence]

\* chunk_by_sentences: the loop's locals after its first i iterations
RECURSIVE SentencesLoop(_, _, _)
SentencesLoop(sentences, i, max_chunk_size) ==
    IF i = 0
    THEN [chunks |-> <<>>, current_chunk |-> <<>>]
    ELSE SentencesStep(SentencesLoop(sentences, i - 1, max_chunk_size),
                       sentences[i], max_chunk_size)

chunk_by_sentences(t, max_chunk_size) ==
    IF t = <<>> THEN <<>>
    ELSE LET sentences == Sentences(t)
             st        == SentencesLoop(sentences, Len(sentences), max_chunk_size)
         IN  IF st.current_chunk # <<>>
             THEN Append(st.chunks, Strip(st.current_chunk))
             ELSE st.chunks

\* chunk_by_paragraphs: the list the loop runs over
Paragraphs(t) == StripNonEmpty(re_split_paragraphs(t))

\* chunk_by_paragraphs: one iteration of the loop over the paragraphs
ParagraphsStep(st, paragraph, max_chunk_size) ==
    IF Len(st.current_chunk) + Len(paragraph) + 2 > max_chunk_size
    THEN IF st.current_chunk # <<>>
         THEN [chunks        |-> Append(st.chunks, Strip(st.current_chunk)),
               current_chunk |-> paragraph]
         ELSE IF Len(paragraph) > max_chunk_size
              THEN [chunks        |-> st.chunks \o chunk_by_sentences(paragraph, max_chunk_size),
                    current_chunk |-> st.current_chunk]
              ELSE [chunks        |-> Append(st.chunks, paragraph),
                    current_chunk |-> st.current_chunk]
    ELSE IF st.current_chunk # <<>>
         THEN [chunks        |-> st.chunks,
               current_chunk |-> st.current_chunk \o <<NL, NL>> \o paragraph]
         ELSE [chunks        |-> st.chunks,
               current_chunk |-> paragraph]

\* chunk_by_paragraphs: the loop's locals after its first i iterations
RECURSIVE ParagraphsLoop(_, _, _)
ParagraphsLoop(paragraphs, i, max_chunk_size) ==
    IF i = 0
    THEN [chunks |-> <<>>, current_chunk |-> <<>>]
    ELSE ParagraphsStep(ParagraphsLoop(paragraphs, i - 1, max_chunk_size),
                        paragraphs[i], max_chunk_size)

chunk_by_paragraphs(t, max_chunk_size) ==
    IF t = <<>> THEN <<>>
    ELSE LET paragraphs == Paragraphs(t)
             st         == ParagraphsLoop(paragraphs, Len(paragraphs), max_chunk_size)
         IN  IF st.current_chunk # <<>>
             THEN Append(st.chunks, Strip(st.current_chunk))
             ELSE st.chunks

\* NextStart without the overlap: the next window starts where this one ends
NextStartNoOverlap(end, ov) == end

\* NextStart with the overlap added instead of subtracted
NextStartGap(end, ov) ==
    IF end - ov <= 0 THEN end ELSE end + ov

\* chunk_text_by_size: the start of the next window (lines 25-27)
NextStart(end, ov) ==
    IF end - ov <= 0 THEN end ELSE end - ov

\* NonEmptyChunks without its filter: the chunks as the loop left them
KeepAllChunks(cs) == cs

\* chunk_text_by_size: [chunk for chunk in chunks if chunk]
NonEmptyChunks(cs) == SelectSeq(cs, LAMBDA c : c # <<>>)

\* TooSmall without its test that there is more than one chunk
TooSmallAlone(paragraph_chunks, min_size) ==
    \A i \in 1..Len(paragraph_chunks) : Len(paragraph_chunks[i]) < min_size

\* smart_chunking: the fallback test on the paragraph chunks
TooSmall(paragraph_chunks, min_size) ==
    /\ \A i \in 1..Len(paragraph_chunks) : Len(paragraph_chunks[i]) < min_size
    /\ Len(paragraph_chunks) > 1

\* smart_chunking: the re-check of every paragraph chunk against max_chunk_size
RECURSIVE Resplit(_, _)
Resplit(paragraph_chunks, max_chunk_size) ==
    IF paragraph_chunks = <<>> THEN <<>>
    ELSE LET chunk == paragraph_chunks[1]
         IN  (IF Len(chunk) > max_chunk_size
              THEN chunk_by_sentences(chunk, max_chunk_size)
              ELSE <<chunk>>)
             \o Resplit(Tail(paragraph_chunks), max_chunk_size)

\* MakeDocs that starts its enumeration one chunk late
MakeDocsSkipFirst(cs, m) ==
    SelectSeq([i \in 1..(Len(cs) - 1) |->
                  [page_content |-> Strip(cs[i + 1]),
                   chunk_id     |-> i,
                   chunk_method |-> m,
                   chunk_size   |-> Len(cs[i + 1]),
                   total_chunks |-> Len(cs)]],
              LAMBDA d : d.page_content # <<>>)

\* chunk_document: the documents built from the strategy's chunks; chunk_id
\* and total_chunks come from enumerate(chunks) and len(chunks)
MakeDocs(cs, m) ==
    SelectSeq([i \in 1..Len(cs) |->
                  [page_content |-> Strip(cs[i]),
                   chunk_id     |-> i - 1,
                   chunk_method |-> m,
                   chunk_size   |-> Len(cs[i]),
                   total_chunks |-> Len(cs)]],
              LAMBDA d : d.page_content # <<>>)

\* ---------------------------------------------------------------- inputs

\* s repeated n times
Repeat(s, n) == [i \in 1..(n * Len(s)) |-> s[((i - 1) % Len(s)) + 1]]

\* every text of at most MaxLen characters over the alphabet
ShortTexts == UNION {[1..n -> Alphabet] : n \in 0..MaxLen}

LongText ==
    Repeat(<<"a">>, LongParagraph) \o <<NL, NL>> \o
    Repeat(<<"a">>, LongParagraph) \o <<NL, NL>> \o
    Repeat(<<"a">>, LongParagraph)

\* three paragraphs of three characters, separated by blank lines
ThreeParagraphs == <<"a", "a", "a", NL, NL, "a", "a", "a", NL, NL, "a", "a", "a">>

\* one word of 34 characters
LongWord ==
    <<"s", "u", "p", "e", "r", "c", "a", "l", "i", "f", "r", "a", "g", "i", "l", "i", "s",
      "t", "i", "c", "e", "x", "p", "i", "a", "l", "i", "d", "o", "c", "i", "o", "u", "s">>

\* ten different characters
ExampleAJ == <<"a", "b", "c", "d", "e", "f", "g", "h", "i", "j">>

\* longer texts: a sentence and a paragraph that meet a non-empty accumulator,
\* the sentence example of the specification, one-character sentences, and
\* three paragraphs of LongParagraph characters (longer than DefaultOverlap,
\* each shorter than DefaultMinChunkSize), the texts above, and words that
\* fill a second chunk of chunk_by_words
LongTexts ==
    { <<"a", ".", "a", " ", "a">>,
      <<"a", NL, NL, "a", ".", "a", "a">>,
      <<"A", ".", " ", "B", ".", " ", "C", ".">>,
      <<"a", ".", "a", ".", "a", ".", "a">>,
      LongText,
      ThreeParagraphs,
      LongWord,
      ExampleAJ,
      <<"a", " ", "a", " ", "a">>,
      <<"a", "a", "a", " ", "a", "a", " ", "a", "a">> }

Texts == ShortTexts \cup LongTexts

Sizes == ((0 - 1)..MaxSize) \cup {LongWordSize}

\* max_chunk_size of smart_chunking: those, and its default
MaxChunkSizes == Sizes \cup {DefaultChunkSize}
Overlaps == 0..MaxOverlap
MinSizes == (0..MaxMinSize) \cup {DefaultMinChunkSize}
Methods == {"size", "sentences", "words", "paragraphs", "semantic"}

\* ----------------------------------------------------------------- state

VARIABLES
    text,            \* the content handed to the call
    fn,              \* the function called ("none" before the call)
    chunk_size,      \* chunk_size / max_chunk_size of the call
    overlap,         \* overlap chunk_text_by_size runs with
    min_chunk_size,  \* min_chunk_size of smart_chunking
    method,          \* method of chunk_document
    pc,              \* "idle", "loop" (inside the while loop), "done"
    start,           \* chunk_text_by_size: start
    chunks,          \* chunk_text_by_size: chunks
    windows,         \* chunk_text_by_size: the <<start, end>> of every window taken
    unrecorded,      \* chunk_text_by_size: len(chunks) beyond the recorded ones, mod 2
    result,          \* the list of strings the strategy returned
    docs             \* the documents chunk_document returned

vars == <<text, fn, chunk_size, overlap, min_chunk_size, method, pc,
          start, chunks, windows, unrecorded, result, docs>>

Init ==
    /\ text \in Texts
    /\ fn = "none"
    /\ chunk_size = 0
    /\ overlap = 0
    /\ min_chunk_size = 0
    /\ method = "none"
    /\ pc = "idle"
    /\ start = 0
    /\ chunks = <<>>
    /\ windows = <<>>
    /\ unrecorded = 0
    /\ result = <<>>
    /\ docs = <<>>

\* the strategy returns r; chunk_document goes on to build its documents
Return(r) ==
    /\ pc' = "done"
    /\ result' = r
    /\ docs' = IF fn' = "chunk_document" THEN MakeDocs(r, method') ELSE <<>>

\* chunk_text_by_size up to its while loop (lines 7-12)
EnterSize ==
    IF text = <<>> \/ chunk_size' <= 0
    THEN Return(<<>>) /\ UNCHANGED <<start, chunks, windows>>
    ELSE /\ pc' = "loop"
         /\ start' = 0
         /\ chunks' = <<>>
         /\ UNCHANGED <<windows, result, docs>>

\* chunk_text_by_size(text, cs, ov)
CallChunkTextBySize ==
    /\ pc = "idle"
    /\ \E cs \in Sizes, ov \in Overlaps :
          /\ fn' = "chunk_text_by_size"
          /\ chunk_size' = cs
          /\ overlap' = ov
    /\ UNCHANGED <<text, min_chunk_size, method, unrecorded>>
    /\ EnterSize

\* one iteration of the while loop of chunk_text_by_size (lines 14-27), and
\* the return that follows the loop's exit (line 29).  A run that returns
\* takes every window at another start, so at most len(text) windows; the
\* lists are recorded for ExtraIter windows more, and a loop still running
\* after that (it can no longer return) runs on with only the parity of the
\* further chunks kept.
WindowStep ==
    /\ pc = "loop"
    /\ UNCHANGED <<text, fn, chunk_size, overlap, min_chunk_size, method>>
    /\ LET text_length == Len(text)
           end   == IF start + chunk_size > text_length
                    THEN text_length ELSE start + chunk_size
           chunk == SubSeq(text, start + 1, end)
           grown == Append(chunks, Strip(chunk))
           recorded == Len(windows) < text_length + ExtraIter
       IN  IF ~(start < text_length)
           THEN Return(NonEmptyChunks(chunks))
                /\ UNCHANGED <<start, chunks, windows, unrecorded>>
           ELSE /\ chunks' = IF recorded THEN grown ELSE chunks
                /\ unrecorded' = IF recorded THEN unrecorded ELSE 1 - unrecorded
                /\ windows' = IF recorded THEN Append(windows, <<start, end>>)
                              ELSE windows
                /\ IF end = text_length
                   THEN Return(NonEmptyChunks(grown)) /\ UNCHANGED start
                   ELSE /\ start' = NextStart(end, overlap)
                        /\ UNCHANGED <<pc, result, docs>>

\* chunk_by_sentences(text, m)
CallChunkBySentences ==
    /\ pc = "idle"
    /\ \E m \in Sizes :
          /\ fn' = "chunk_by_sentences"
          /\ chunk_size' = m
          /\ Return(chunk_by_sentences(text, m))
    /\ UNCHANGED <<text, overlap, min_chunk_size, method, start, chunks, windows,
                   unrecorded>>

\* chunk_by_words(text, m)
CallChunkByWords ==
    /\ pc = "idle"
    /\ \E m \in Sizes :
          /\ fn' = "chunk_by_words"
          /\ chunk_size' = m
          /\ Return(chunk_by_words(text, m))
    /\ UNCHANGED <<text, overlap, min_chunk_size, method, start, chunks, windows,
                   unrecorded>>

\* chunk_by_paragraphs(text, m)
CallChunkByParagraphs ==
    /\ pc = "idle"
    /\ \E m \in Sizes :
          /\ fn' = "chunk_by_paragraphs"
          /\ chunk_size' = m
          /\ Return(chunk_by_paragraphs(text, m))
    /\ UNCHANGED <<text, overlap, min_chunk_size, method, start, chunks, windows,
                   unrecorded>>

\* chunk_document(Document(text), cs, ov, md)
CallChunkDocument ==
    /\ pc = "idle"
    /\ \E cs \in Sizes, ov \in Overlaps, md \in Methods :
          /\ fn' = "chunk_document"
          /\ chunk_size' = cs
          /\ overlap' = ov
          /\ method' = md
    /\ UNCHANGED <<text, min_chunk_size, unrecorded>>
    /\ IF text = <<>>
       THEN /\ pc' = "done"
            /\ result' = <<>>
            /\ docs' = <<>>
            /\ UNCHANGED <<start, chunks, windows>>
       ELSE IF method' = "sentences"
       THEN /\ Return(chunk_by_sentences(text, chunk_size'))
            /\ UNCHANGED <<start, chunks, windows>>
       ELSE IF method' = "words"
       THEN /\ Return(chunk_by_words(text, chunk_size'))
            /\ UNCHANGED <<start, chunks, windows>>
       ELSE IF method' = "paragraphs"
       THEN /\ Return(chunk_by_paragraphs(text, chunk_size'))
            /\ UNCHANGED <<start, chunks, windows>>
       ELSE EnterSize

\* smart_chunking(text, m, mn)
CallSmartChunking ==
    /\ pc = "idle"
    /\ \E m \in MaxChunkSizes, mn \in MinSizes :
          /\ fn' = "smart_chunking"
          /\ chunk_size' = m
          /\ min_chunk_size' = mn
    /\ UNCHANGED <<text, method, unrecorded>>
    /\ IF text = <<>>
       THEN Return(<<>>) /\ UNCHANGED <<overlap, start, chunks, windows>>
       ELSE LET paragraph_chunks == chunk_by_paragraphs(text, chunk_size')
            IN  IF TooSmall(paragraph_chunks, min_chunk_size')
                THEN /\ overlap' = DefaultOverlap
                     /\ EnterSize
                ELSE /\ Return(Resplit(paragraph_chunks, chunk_size'))
                     /\ UNCHANGED <<overlap, start, chunks, windows>>

Next ==
    \/ CallChunkTextBySize
    \/ WindowStep
    \/ CallChunkBySentences
    \/ CallChunkByWords
    \/ CallChunkByParagraphs
    \/ CallChunkDocument
    \/ CallSmartChunking

Spec == Init /\ [][Next]_vars

\* a call is run to its end: a loop that can take its next iteration takes it
FairSpec == Spec /\ WF_vars(WindowStep)

\* ---------------------------------------------------------------- claims

SizeCall == fn = "chunk_text_by_size"
Returned == pc = "done"

\* the start positions of the windows taken so far
Starts == [i \in 1..Len(windows) |-> windows[i][1]]

\* C1: with chunk_size >= 1 and overlap >= chunk_size, chunk_text_by_size
\* never takes two windows at the same start position (and so terminates).
C1_NoRepeatedStart ==
    (SizeCall /\ chunk_size >= 1 /\ overlap >= chunk_size)
        => \A i, j \in 1..Len(Starts) : i # j => Starts[i] # Starts[j]

\* C2: every call of smart_chunking terminates, the calls that fall back to
\* chunk_text_by_size with the overlap of 200 included.
C2_SmartChunkingTerminates ==
    (fn = "smart_chunking") ~> Returned

\* C3: the documents chunk_document returns carry total_chunks equal to their
\* number and the chunk_id values 0, 1, ..., k-1 in order.
C3_MetadataConsistent ==
    (fn = "chunk_document" /\ Returned)
        => \A i \in 1..Len(docs) :
              /\ docs[i].total_chunks = Len(docs)
              /\ docs[i].chunk_id = i - 1

\* a chunk_document call over the sliding window that dropped a window which
\* was all whitespace and returned two documents or more
C3_Witness ==
    /\ fn = "chunk_document"
    /\ Returned
    /\ Len(docs) >= 2
    /\ Len(chunks) > Len(result)

\* C4: no chunk returned by any strategy, by smart_chunking or by
\* chunk_document is empty or all whitespace.
C4_NoEmptyChunk ==
    Returned
        => /\ \A i \in 1..Len(result) : Strip(result[i]) # <<>>
           /\ \A i \in 1..Len(docs) : Strip(docs[i].page_content) # <<>>

\* chunk_text_by_size returned chunks after trimming a window to nothing
C4_Witness ==
    /\ SizeCall
    /\ Returned
    /\ result # <<>>
    /\ \E i \in 1..Len(chunks) : chunks[i] = <<>>

\* the sentence example of the specification
ExampleABC == <<"A", ".", " ", "B", ".", " ", "C", ".">>

\* C5: every chunk chunk_by_sentences makes of two or more sentences (it then
\* holds the separator ". ") is no longer than max_chunk_size, and
\* chunk_by_sentences("A. B. C.", 5) is ["A", "B", "C"].
C5_PackedSentencesFit ==
    (fn = "chunk_by_sentences" /\ Returned)
        => /\ \A i \in 1..Len(result) :
                 (\E k \in 1..Len(result[i]) : result[i][k] = ".")
                     => Len(result[i]) <= chunk_size
           /\ (text = ExampleABC /\ chunk_size = 5)
                 => result = << <<"A">>, <<"B">>, <<"C">> >>

\* what the accumulator loops hold after an oversized item was split by the
\* finer strategy and spliced in at its position: the accumulator flushed (if
\* it held anything), then the item's sub-chunks
Spliced(before, pieces) ==
    [chunks        |-> before.chunks
                       \o (IF before.current_chunk # <<>>
                           THEN <<Strip(before.current_chunk)>> ELSE <<>>)
                       \o pieces,
     current_chunk |-> <<>>]

\* C6: in chunk_by_sentences every sentence longer than max_chunk_size is
\* split by chunk_by_words and spliced in at its position, whatever the
\* accumulator holds; it is never put into the accumulator whole.
C6_OversizedSentenceSplit ==
    (fn = "chunk_by_sentences" /\ Returned)
        => LET sentences == Sentences(text)
           IN  \A i \in 1..Len(sentences) :
                  Len(sentences[i]) > chunk_size
                      => SentencesLoop(sentences, i, chunk_size)
                           = Spliced(SentencesLoop(sentences, i - 1, chunk_size),
                                     chunk_by_words(sentences[i], chunk_size))

\* C7: in chunk_by_paragraphs every paragraph longer than max_chunk_size is
\* split by chunk_by_sentences and spliced in at its position, whatever the
\* accumulator holds; a non-empty accumulator is never longer than
\* max_chunk_size.
C7_OversizedParagraphSplit ==
    (fn = "chunk_by_paragraphs" /\ Returned)
        => LET paragraphs == Paragraphs(text)
           IN  /\ \A i \in 1..Len(paragraphs) :
                     Len(paragraphs[i]) > chunk_size
                         => ParagraphsLoop(paragraphs, i, chunk_size)
                              = Spliced(ParagraphsLoop(paragraphs, i - 1, chunk_size),
                                        chunk_by_sentences(paragraphs[i], chunk_size))
               /\ \A i \in 0..Len(paragraphs) :
                     LET current_chunk ==
                             ParagraphsLoop(paragraphs, i, chunk_size).current_chunk
                     IN  current_chunk # <<>> => Len(current_chunk) <= chunk_size

\* C8: with max_chunk_size <= 0 every strategy, and chunk_document with any
\* method, returns the empty list.
C8_NonPositiveSizeEmpty ==
    (Returned /\ chunk_size <= 0
       /\ fn \in {"chunk_text_by_size", "chunk_by_sentences", "chunk_by_words",
                  "chunk_by_paragraphs", "chunk_document"})
        => result = <<>> /\ docs = <<>>

\* a strategy was called on content that is not all whitespace and is shorter
\* than max_chunk_size
ShortContent ==
    /\ Returned
    /\ fn \in {"chunk_text_by_size", "chunk_by_sentences", "chunk_by_words",
               "chunk_by_paragraphs"}
    /\ Strip(text) # <<>>
    /\ Len(text) < chunk_size

\* C9 as claimed: on such content every strategy returns one chunk, the
\* trimmed input.
C9_ShortContentIsOneChunk ==
    ShortContent => result = <<Strip(text)>>

HasDelim(s) == \E k \in 1..Len(s) : IsDelim(s[k])

\* C9 as amended: on such content chunk_text_by_size returns the trimmed input
\* as its one chunk; chunk_by_words returns one chunk, the words joined by
\* single spaces; chunk_by_paragraphs returns one chunk, the trimmed
\* paragraphs joined by one blank line; chunk_by_sentences returns the trimmed
\* input as its one chunk when the content holds no '.', '!' or '?'.
C9_ShortContentNormalised ==
    ShortContent
        => /\ fn = "chunk_text_by_size" => result = <<Strip(text)>>
           /\ fn = "chunk_by_words" => result = <<Join(split(text), <<" ">>)>>
           /\ fn = "chunk_by_paragraphs"
                 => result = <<Join(Paragraphs(text), <<NL, NL>>)>>
           /\ (fn = "chunk_by_sentences" /\ ~HasDelim(text))
                 => result = <<Strip(text)>>

\* short content of several words, whose one chunk is not the trimmed input
C9_Witness ==
    /\ ShortContent
    /\ fn = "chunk_by_words"
    /\ Len(split(text)) >= 2
    /\ result # <<Strip(text)>>

\* the positions of s that str.strip() keeps
Kept(s) ==
    {p \in 1..Len(s) : /\ \E q \in 1..p : ~IsSpace(s[q])
                       /\ \E q \in p..Len(s) : ~IsSpace(s[q])}

\* the positions of the text inside a returned chunk, every chunk placed at
\* the offset of its window
Covered ==
    UNION {{w[1] + p : p \in Kept(SubSeq(text, w[1] + 1, w[2]))} :
              w \in {windows[i] : i \in 1..Len(windows)}}

RegularSizeCall ==
    SizeCall /\ Returned /\ chunk_size >= 1 /\ overlap >= 0 /\ overlap < chunk_size

\* C10 as claimed: with 0 <= overlap < chunk_size every character position of
\* the trimmed text lies inside a returned chunk.
C10_TrimmedTextCovered ==
    RegularSizeCall => Kept(text) \subseteq Covered

\* C10 as amended: with 0 <= overlap < chunk_size every position of the text
\* that holds a non-whitespace character lies inside a returned chunk.
C10_NonSpaceCovered ==
    RegularSizeCall
        => {p \in 1..Len(text) : ~IsSpace(text[p])} \subseteq Covered

\* a call that took several windows and lost whitespace between two chunks
C10_Witness ==
    /\ RegularSizeCall
    /\ Len(windows) >= 2
    /\ ~(Kept(text) \subseteq Covered)

\* the paragraph example of the specification: smart_chunking returned on
\* three 3-character paragraphs with the default sizes
ThreeParagraphsCall ==
    /\ fn = "smart_chunking"
    /\ Returned
    /\ text = ThreeParagraphs
    /\ chunk_size = DefaultChunkSize
    /\ min_chunk_size = DefaultMinChunkSize

\* smart_chunking took its fixed-size fallback (the only place that sets the
\* overlap of a smart_chunking call)
TookFallback == fn = "smart_chunking" /\ overlap = DefaultOverlap

\* C11 as claimed: on that example chunk_by_paragraphs yields 3 chunks, all
\* under min_chunk_size, the fallback test is true and the fixed-size
\* fallback produces the result.
C11_ExampleFallsBack ==
    ThreeParagraphsCall
        => /\ Len(chunk_by_paragraphs(text, chunk_size)) = 3
           /\ TooSmall(chunk_by_paragraphs(text, chunk_size), min_chunk_size)
           /\ TookFallback

\* C11 as amended: on that example chunk_by_paragraphs packs the three
\* paragraphs into one chunk (the whole text), so the fallback test is false
\* (one chunk only) and smart_chunking returns that chunk from its paragraph
\* branch.
C11_ExampleIsOneChunk ==
    ThreeParagraphsCall
        => /\ chunk_by_paragraphs(text, chunk_size) = <<text>>
           /\ ~TookFallback
           /\ result = <<text>>

C11_Witness ==
    ThreeParagraphsCall /\ Len(Paragraphs(text)) = 3 /\ result # <<>>

\* C12: every document chunk_document returns carries a chunk_method among
\* "size", "sentences", "words", "paragraphs" that names the strategy the
\* call dispatched to: the method given when it is one of the last three,
\* "size" for every other method.
C12_MethodNamesStrategy ==
    (fn = "chunk_document" /\ Returned)
        => \A i \in 1..Len(docs) :
              /\ docs[i].chunk_method \in {"size", "sentences", "words", "paragraphs"}
              /\ docs[i].chunk_method =
                    (IF method \in {"sentences", "words", "paragraphs"}
                     THEN method ELSE "size")

\* C13: every chunk chunk_by_words returns is no longer than max_chunk_size
\* or is one word; every word longer than max_chunk_size is a chunk of its
\* own; LongWord with LongWordSize comes back as the only chunk.
C13_WordsFitOrStandAlone ==
    (fn = "chunk_by_words" /\ Returned)
        => /\ \A i \in 1..Len(result) :
                 Len(result[i]) <= chunk_size \/ Len(split(result[i])) = 1
           /\ LET words == split(text)
              IN  \A k \in 1..Len(words) :
                     Len(words[k]) > chunk_size
                         => \E i \in 1..Len(result) : result[i] = words[k]
           /\ (text = LongWord /\ chunk_size = LongWordSize) => result = <<LongWord>>

\* an oversized word met a non-empty accumulator: the first chunk was
\* flushed from the accumulator, the second is the oversized word
C13_Witness ==
    /\ fn = "chunk_by_words"
    /\ Returned
    /\ Len(result) >= 2
    /\ Len(result[1]) + 1 <= chunk_size
    /\ Len(result[2]) > chunk_size

\* C14: with chunk_size >= 1 and 0 <= overlap < chunk_size the first window
\* starts at 0, every window is chunk_size long unless the text ends first,
\* every next window starts chunk_size - overlap after the one before, the
\* window that reaches the end of the text is the last, every chunk is its
\* window trimmed, and "abcdefghij" with 4 and 1 gives "abcd", "defg", "ghij".
C14_WindowsAdvanceByStride ==
    (SizeCall /\ chunk_size >= 1 /\ overlap >= 0 /\ overlap < chunk_size)
        => /\ \A i \in 1..Len(windows) :
                 /\ windows[i][1] = (i - 1) * (chunk_size - overlap)
                 /\ windows[i][2] = IF windows[i][1] + chunk_size > Len(text)
                                    THEN Len(text) ELSE windows[i][1] + chunk_size
                 /\ windows[i][2] = Len(text) => i = Len(windows) /\ Returned
                 /\ chunks[i] = Strip(SubSeq(text, windows[i][1] + 1, windows[i][2]))
           /\ (Returned /\ text # <<>>) => windows[Len(windows)][2] = Len(text)
           /\ (Returned /\ text = ExampleAJ /\ chunk_size = 4 /\ overlap = 1)
                 => result = << <<"a", "b", "c", "d">>, <<"d", "e", "f", "g">>,
                                <<"g", "h", "i", "j">> >>

\* the example call returned
C14_Witness ==
    /\ SizeCall
    /\ Returned
    /\ text = ExampleAJ
    /\ chunk_size = 4
    /\ overlap = 1
    /\ Len(windows) = 3

\* the windows are those chunk_text_by_size takes on t with cs and ov: the
\* first starts at 0, each ends cs further or at the end of t, each next one
\* starts where line 25-27 puts it, and the last one ends at the end of t
SizeWindows(ws, t, cs, ov) ==
    /\ ws # <<>>
    /\ ws[1][1] = 0
    /\ \A i \in 1..Len(ws) :
          /\ ws[i][2] = IF ws[i][1] + cs > Len(t) THEN Len(t) ELSE ws[i][1] + cs
          /\ i < Len(ws) => /\ ws[i][2] # Len(t)
                            /\ ws[i + 1][1] = NextStart(ws[i][2], ov)
    /\ ws[Len(ws)][2] = Len(t)

\* what chunk_text_by_size returns from those windows: each trimmed, the
\* empty ones left out
SizeChunksOf(ws, t) ==
    SelectSeq([i \in 1..Len(ws) |-> Strip(SubSeq(t, ws[i][1] + 1, ws[i][2]))],
              LAMBDA c : c # <<>>)

\* C15: chunk_document with a method other than "sentences", "words" and
\* "paragraphs" returns documents whose contents, in order, are the chunks of
\* chunk_text_by_size(content, chunk_size, overlap).
C15_OtherMethodIsSize ==
    (fn = "chunk_document" /\ Returned
       /\ method \notin {"sentences", "words", "paragraphs"})
        => IF text = <<>> \/ chunk_size <= 0
           THEN docs = <<>>
           ELSE /\ SizeWindows(windows, text, chunk_size, overlap)
                /\ [i \in 1..Len(docs) |-> docs[i].page_content]
                      = SizeChunksOf(windows, text)

\* an unrecognized method gave two documents or more
C15_Witness ==
    /\ fn = "chunk_document"
    /\ Returned
    /\ method = "semantic"
    /\ Len(docs) >= 2

\* the content is empty or all whitespace
Blank == Strip(text) = <<>>

\* C16: on content that is empty or all whitespace every strategy,
\* smart_chunking and chunk_document return, and return the empty sequence.
C16_BlankContentGivesNothing ==
    (Blank /\ fn # "none") ~> (Returned /\ result = <<>> /\ docs = <<>>)

\* the sum of len(word) + 1 over the words of a chunk
RECURSIVE SumSizes(_)
SumSizes(words) ==
    IF words = <<>> THEN 0 ELSE Len(words[1]) + 1 + SumSizes(Tail(words))

\* C17: in chunk_by_words the size counter equals the sum of len(word) + 1
\* over the words of the open chunk after every iteration, and chunking the
\* words of the second and later chunks on their own gives those chunks.
C17_CounterMatchesOpenChunk ==
    (fn = "chunk_by_words" /\ Returned)
        => /\ LET words == split(text)
              IN  \A i \in 0..Len(words) :
                     LET st == WordsLoop(words, i, chunk_size)
                     IN  st.current_size = SumSizes(st.current_chunk)
           /\ Len(result) >= 2
                 => chunk_by_words(Join(Tail(result), <<" ">>), chunk_size)
                       = Tail(result)

\* C18: the chunks of chunk_by_words, joined by single spaces, are the words
\* of the text in order, joined by single spaces.
C18_WordsPreserved ==
    (fn = "chunk_by_words" /\ Returned)
        => /\ Join(result, <<" ">>) = Join(split(text), <<" ">>)
           /\ split(Join(result, <<" ">>)) = split(text)

\* several chunks, one of them of two words or more
C18_Witness ==
    /\ fn = "chunk_by_words"
    /\ Returned
    /\ Len(result) >= 2
    /\ \E i \in 1..Len(result) : Len(split(result[i])) >= 2

====
